---- MODULE Spec2Model ----
(***************************************************************************)
(* A model of src/src/plots.py: the MAE/AIC scoring pipeline               *)
(* (get_mae_and_aic) and the trend plots (plot_change_trend,               *)
(* plot_proportion_trend, plot_correct_predictions).                       *)
(*                                                                         *)
(* Tables are sequences of rows.  Floating point values are kept exact:    *)
(* TumorVolumeNorm is held in thousandths, a mean is the pair              *)
(* <<sum, count>>, and the logarithm in the AIC is kept as a term.  NaN is *)
(* the flag nan of a predicted item.                                       *)
(*                                                                         *)
(* utils, fit_studies and models are not part of src/: their operators are *)
(* written from the specification's description of them.                   *)
(***************************************************************************)
EXTENDS Integers, Sequences, FiniteSets, TLC

\* ------------------------------------------------------------------ bounds
MaxStudies == 2
MaxModels == 2
MaxCopies == 2
MaxLen == 3

\* ------------------------------------------------------- program constants
MinPointsFit == 6
MinPointsTrend == 2
UpToDefault == 5
Amount == 10

study_names_list == <<"FIR", "POPLAR", "BIRCH", "OAK", "IMVIGOR210">>

ModelNames ==
    <<"Exponential", "LogisticVerhulst", "Gompertz", "GeneralGompertz",
      "ClassicBertalanffy", "GeneralBertalanffy">>

\* models.<Model>.params: the number of free parameters of each model
ModelParams == <<1, 2, 2, 3, 2, 3>>

models == 1..MaxModels

\* ----------------------------------------------------------------- helpers
RECURSIVE SortSet(_)
SortSet(S) ==
    IF S = {} THEN <<>>
    ELSE LET m == CHOOSE x \in S : \A y \in S : x <= y
         IN  <<m>> \o SortSet(S \ {m})

RECURSIVE Flatten(_)
Flatten(ss) == IF ss = <<>> THEN <<>> ELSE Head(ss) \o Flatten(Tail(ss))

Reverse(s) == [i \in 1..Len(s) |-> s[Len(s) + 1 - i]]

Min(a, b) == IF a <= b THEN a ELSE b

Abs(x) == IF x < 0 THEN -x ELSE x

SeqMin(s) == CHOOSE x \in {s[i] : i \in DOMAIN s} : \A i \in DOMAIN s : x <= s[i]

\* ------------------------------------------------------ pandas on a table
\* the keys of df.groupby('PatientID'), which pandas sorts ascending
PatientIDs(table) == SortSet({table[i].PatientID : i \in DOMAIN table})

\* the rows of one group, in the table's row order
Group(table, pid) == SelectSeq(table, LAMBDA r : r.PatientID = pid)

Column_LD(table) == [i \in DOMAIN table |-> table[i].TargetLesionLongDiam_mm]

Column_Vol(table) == [i \in DOMAIN table |-> table[i].TumorVolumeNorm]

\* DataFrame.head(i)
HeadRows(table, i) == SubSeq(table, 1, Min(i, Len(table)))

\* ------------------------------------------------------- trend classifiers
\* utils.detect_trend_recist: RECIST 1.1 on an ordered series of diameters.
\* "Error" is DegenerateSeriesError (series too short, or a zero baseline or
\* nadir where a ratio is needed).
detect_trend_recist(ld) ==
    IF Len(ld) < 2 THEN "Error"
    ELSE IF ld[1] = 0 THEN "Error"
    ELSE IF ld[Len(ld)] = 0 THEN "CR"
    ELSE IF SeqMin(ld) = 0 THEN "Error"
    ELSE IF /\ (ld[Len(ld)] - SeqMin(ld)) * 100 >= 20 * SeqMin(ld)
            /\ ld[Len(ld)] - SeqMin(ld) >= 5 THEN "PD"
    ELSE IF (ld[1] - ld[Len(ld)]) * 100 >= 30 * ld[1] THEN "PR"
    ELSE "SD"

\* utils.detect_trend: the free-form trend of a series of diameters
detect_trend(ld) ==
    IF Len(ld) < 2 THEN "Error"
    ELSE IF ld[1] = 0 THEN "Error"
    ELSE IF (ld[Len(ld)] - ld[1]) * 100 > 20 * ld[1] THEN "Up"
    ELSE IF (ld[1] - ld[Len(ld)]) * 100 > 20 * ld[1] THEN "Down"
    ELSE "Fluctuate"

\* utils.get_at_least(study, n): the patients with at least n measurements
get_at_least(study, n) ==
    SelectSeq(study, LAMBDA r : Len(Group(study, r.PatientID)) >= n)

TrendOfPatient(study, pid, isRecist) ==
    IF isRecist THEN detect_trend_recist(Column_LD(Group(study, pid)))
    ELSE detect_trend(Column_LD(Group(study, pid)))

RowsWithTrend(study, label, isRecist) ==
    SelectSeq(study, LAMBDA r : TrendOfPatient(study, r.PatientID, isRecist) = label)

\* utils.split_on_trend_recist(study) -> CR, PR, PD, SD
split_on_trend_recist(study) ==
    <<RowsWithTrend(study, "CR", TRUE), RowsWithTrend(study, "PR", TRUE),
      RowsWithTrend(study, "PD", TRUE), RowsWithTrend(study, "SD", TRUE)>>

\* utils.split_on_trend(study) -> up, down, fluctuate
split_on_trend(study) ==
    <<RowsWithTrend(study, "Up", FALSE), RowsWithTrend(study, "Down", FALSE),
      RowsWithTrend(study, "Fluctuate", FALSE)>>

\* ------------------------------------------------------------- input data
\* pre.preprocess: TumorVolumeNorm = (diameter / first diameter)^3, in thousandths
\* (no value, held as 0, for a first diameter of 0: the plots do not read it)
TumorVolumeNorm(ld, ld0) ==
    IF ld0 = 0 THEN 0 ELSE (ld * ld * ld * 1000) \div (ld0 * ld0 * ld0)

\* the rows of one patient: measurement k is taken on day firstDay + 14 (k - 1)
PatientRows(studyNr, arm, pid, ld, firstDay) ==
    [k \in 1..Len(ld) |->
        [StudyNr |-> studyNr, Arm |-> arm, PatientID |-> pid,
         TreatmentDay |-> firstDay + 14 * (k - 1),
         TargetLesionLongDiam_mm |-> ld[k],
         TumorVolumeNorm |-> TumorVolumeNorm(ld[k], ld[1])]]

\* one series of six diameters per response: CR, PR, PD, SD
\* (free-form: Down, Down, Up, Fluctuate)
Shapes ==
    <<  <<50, 40, 30, 20, 10, 0>>,
        <<50, 45, 40, 35, 35, 30>>,
        <<50, 40, 40, 45, 55, 61>>,
        <<50, 50, 52, 50, 48, 50>>  >>

NumShapes == Len(Shapes)

CohortIDs(copies) == 1..(NumShapes * copies)

ShapeOf(pid) == Shapes[((pid - 1) % NumShapes) + 1]

\* A study of the scoring pipeline: `copies` patients of every shape.  The
\* patient short (0: none) has lost its last measurement.  Patients follow
\* each other in ascending or descending order of PatientID.
CohortTable(studyNr, copies, short, order) ==
    LET ids  == SortSet(CohortIDs(copies))
        seqs == [i \in DOMAIN ids |->
                    PatientRows(studyNr, 1, ids[i],
                        IF ids[i] = short
                        THEN SubSeq(ShapeOf(ids[i]), 1, MinPointsFit - 1)
                        ELSE ShapeOf(ids[i]),
                        0)]
    IN  Flatten(IF order = "asc" THEN seqs ELSE Reverse(seqs))

\* ------------------------------------------------------------------ state
VARIABLES
    recist,         \* get_mae_and_aic's argument recist
    studies,        \* its argument studies: one table per study
    fitOutcome,     \* what the optimiser does for (study, patient, model)
    dictionary,     \* subgroup name -> table
    entries,        \* the keys of dictionary, in insertion order
    df,             \* the output table being built
    predicted,      \* the Series predicted of the last loop body, after dropna
    fitLog,         \* the calls made to fits.fit_patient, one entry per loop body
    pc, si, ei, mi, \* where the run is: phase, study, subgroup and model index
    err,            \* the exception that ended the run
    written,        \* the table handed to to_csv
    csv,            \* the file it went to
    tStudies,       \* the studies handed to a plot function
    tRecist,        \* plot_correct_predictions' argument recist
    up_to,          \* plot_correct_predictions' argument up_to
    calls,          \* the series lengths handed to a trend classifier, in call order
    tpc, tfn,       \* whether a plot function has run, and which
    correct,        \* plot_correct_predictions: per amount of points, patient -> CorrectTrend
    data,           \* plot_correct_predictions: per amount of points, group -> mean
    trend_counts,   \* plot_proportion_trend: (arm, trend) -> number of patients
    lines           \* plot_change_trend: the lines drawn

pipelineVars ==
    <<recist, studies, fitOutcome, dictionary, entries, df, predicted, fitLog,
      pc, si, ei, mi, err, written, csv>>

trendVars == <<tStudies, tRecist, up_to, calls, tpc, tfn, correct, data, trend_counts, lines>>

\* ------------------------------------------------------------ the fitter
FitKinds == {"ok", "nanAll", "nanPart"}

\* The residual the fitted curve of model m leaves on a patient's points.
Residual(m, pid) == 10 * m + pid

\* pd.Series(fits.fit_patient(model, p)(p['TreatmentDay'])) for one group p:
\* one item per measurement, indexed (PatientID, k).  A failed fit predicts
\* NaN, at every point or only at the first.
FitPatient(m, p) ==
    LET outcome == fitOutcome[<<p[1].StudyNr, p[1].PatientID, m>>]
    IN  [k \in 1..Len(p) |->
            [PatientID |-> p[1].PatientID,
             k   |-> k - 1,
             nan |-> outcome = "nanAll" \/ (outcome = "nanPart" /\ k = 1),
             val |-> p[k].TumorVolumeNorm + Residual(m, p[1].PatientID)]]

\* dictionary[entry].groupby('PatientID').apply(...): the Series the code reads
\* it as (items indexed by a tuple that starts with the PatientID), the
\* groups in ascending order of PatientID, each in the table's row order
PredictedRaw(table, m) ==
    LET ids == PatientIDs(table)
    IN  Flatten([i \in DOMAIN ids |-> FitPatient(m, Group(table, ids[i]))])

\* predicted.hasnans
HasNans(pred) == \E i \in DOMAIN pred : pred[i].nan

\* the patients the loop over predicted.items() drops from dictionary[entry]
NanPatients(pred) == {pred[i].PatientID : i \in {j \in DOMAIN pred : pred[j].nan}}

DropPatients(table, pids) == SelectSeq(table, LAMBDA r : r.PatientID \notin pids)

\* predicted.dropna(): the NaN items go, each on its own
DropNa(pred) == SelectSeq(pred, LAMBDA x : ~x.nan)

\* Sum, after "for i in range(n): Sum += abs(frame_predicted[i] - tumorVolumeNorm_list[i])"
RECURSIVE SumLoop(_, _, _)
SumLoop(frame_predicted, tumorVolumeNorm_list, n) ==
    IF n = 0 THEN 0
    ELSE SumLoop(frame_predicted, tumorVolumeNorm_list, n - 1)
            + Abs(frame_predicted[n] - tumorVolumeNorm_list[n])

\* absError = Sum / n
AbsError(frame_predicted, tumorVolumeNorm_list) ==
    <<SumLoop(frame_predicted, tumorVolumeNorm_list, Len(frame_predicted)),
      Len(frame_predicted)>>

RECURSIVE SeqSum(_)
SeqSum(s) == IF s = <<>> THEN 0 ELSE Head(s) + SeqSum(Tail(s))

\* sklearn.metrics.mean_absolute_error(y_true, y_pred), by position
mean_absolute_error(y_true, y_pred) ==
    <<SeqSum([i \in DOMAIN y_true |-> Abs(y_true[i] - y_pred[i])]), Len(y_true)>>

\* SE = np.square(absError); temp_sum = np.sum(SE)
Square(q) == <<q[1] * q[1], q[2] * q[2]>>

\* (an AIC that counts the parameters once)
AicOnce(params, temp_sum) == [twoK |-> params, minus2LnOf |-> temp_sum]

\* aic = (2 * model.params) - (2 * np.log(temp_sum)), the logarithm kept as a term
Aic(params, temp_sum) == [twoK |-> 2 * params, minus2LnOf |-> temp_sum]

\* One body of the loop over the models, on the subgroup's table as it is now.
\* status is "ok" or the exception that ends the run: IndexError when the loop
\* of line 253 runs past the observed list, ZeroDivisionError when nothing is
\* left to average (on an empty table pandas may raise sooner), ValueError
\* from mean_absolute_error on lists of different lengths.
PairResult(entry, table, m) ==
    LET raw   == PredictedRaw(table, m)
        kept  == IF HasNans(raw) THEN DropPatients(table, NanPatients(raw)) ELSE table
        pred  == DropNa(raw)
        frame_predicted      == [i \in DOMAIN pred |-> pred[i].val]
        tumorVolumeNorm_list == Column_Vol(kept)
        n      == Len(frame_predicted)
        status == IF n > Len(tumorVolumeNorm_list) THEN "IndexError"
                  ELSE IF n = 0 THEN "ZeroDivisionError"
                  ELSE IF n # Len(tumorVolumeNorm_list) THEN "ValueError"
                  ELSE "ok"
    IN  [table     |-> kept,
         predicted |-> pred,
         fitted    |-> {table[i].PatientID : i \in DOMAIN table},
         status    |-> status,
         new_row   |->
            IF status = "ok"
            THEN [study_trend |-> entry,
                  model |-> ModelNames[m],
                  MAE   |-> mean_absolute_error(tumorVolumeNorm_list, frame_predicted),
                  AIC   |-> Aic(ModelParams[m],
                                Square(AbsError(frame_predicted, tumorVolumeNorm_list)))]
            ELSE <<>>]

\* ------------------------------------------------------ get_mae_and_aic
\* (the same, PD filed before PR)
RecistNamesSwapped(name) == <<name \o "_CR", name \o "_PD", name \o "_PR", name \o "_SD">>

RecistNames(name) == <<name \o "_CR", name \o "_PR", name \o "_PD", name \o "_SD">>

TrendNames(name) == <<name \o "_up", name \o "_down", name \o "_fluctuate">>

\* dictionary[name] = table, for each name: a new key goes last, a known key
\* keeps its place
RECURSIVE PutAll(_, _, _)
PutAll(d, names, tables) ==
    IF names = <<>> THEN d
    ELSE PutAll((Head(names) :> Head(tables)) @@ d, Tail(names), Tail(tables))

RECURSIVE KeysAfter(_, _)
KeysAfter(keys, names) ==
    IF names = <<>> THEN keys
    ELSE KeysAfter(IF \E i \in DOMAIN keys : keys[i] = Head(names)
                   THEN keys ELSE Append(keys, Head(names)),
                   Tail(names))

\* one round of "for i, study in enumerate(studies)"
SplitStudy ==
    /\ pc = "split"
    /\ LET study  == get_at_least(studies[si], MinPointsFit)
           names  == IF recist THEN RecistNames(study_names_list[si])
                     ELSE TrendNames(study_names_list[si])
           tables == IF recist THEN split_on_trend_recist(study)
                     ELSE split_on_trend(study)
       IN  /\ dictionary' = PutAll(dictionary, names, tables)
           /\ entries' = KeysAfter(entries, names)
    /\ IF si < Len(studies)
       THEN /\ si' = si + 1
            /\ pc' = "split"
       ELSE /\ si' = si
            /\ pc' = "loop"
    /\ UNCHANGED <<recist, studies, fitOutcome, df, predicted, fitLog, ei, mi,
                   err, written, csv>>
    /\ UNCHANGED trendVars

\* one body of "for entry in dictionary: for model in models:"
ProcessPair ==
    /\ pc = "loop"
    /\ LET entry == entries[ei]
           res   == PairResult(entry, dictionary[entry], mi)
       IN  /\ dictionary' = [dictionary EXCEPT ![entry] = res.table]
           /\ predicted' = res.predicted
           /\ fitLog' = Append(fitLog, [entry |-> entry, model |-> mi, fitted |-> res.fitted])
           /\ IF res.status = "ok"
              THEN /\ df' = Append(df, res.new_row)
                   /\ err' = err
                   /\ IF mi < MaxModels
                      THEN /\ mi' = mi + 1 /\ ei' = ei /\ pc' = "loop"
                      ELSE IF ei < Len(entries)
                      THEN /\ mi' = 1 /\ ei' = ei + 1 /\ pc' = "loop"
                      ELSE /\ mi' = mi /\ ei' = ei /\ pc' = "write"
              ELSE /\ df' = df
                   /\ err' = res.status
                   /\ pc' = "aborted"
                   /\ UNCHANGED <<ei, mi>>
    /\ UNCHANGED <<recist, studies, fitOutcome, entries, si, written, csv>>
    /\ UNCHANGED trendVars

\* df.to_csv(...)
WriteCsv ==
    /\ pc = "write"
    /\ written' = df
    /\ csv' = IF recist THEN "output_MAE_AIC_recist.csv" ELSE "output_MAE_AIC.csv"
    /\ pc' = "done"
    /\ UNCHANGED <<recist, studies, fitOutcome, dictionary, entries, df, predicted,
                   fitLog, si, ei, mi, err>>
    /\ UNCHANGED trendVars

\* The arguments of a call: 1..MaxStudies studies of 1..MaxCopies patients per
\* response, and at most one patient out of the ordinary: it has five
\* measurements, or its fit fails for one model.  (A patient whose fit has
\* failed is not fitted again, so a second failing model would not show; the
\* patients of one response are alike, so the odd one is the first of them.)
FitFailures == {"nanAll", "nanPart"}

PipelineStart ==
    /\ dictionary = <<>>
    /\ entries = <<>>
    /\ df = <<>>
    /\ predicted = <<>>
    /\ fitLog = <<>>
    /\ si = 1
    /\ ei = 1
    /\ mi = 1
    /\ err = "none"
    /\ written = <<>>
    /\ csv = "none"

TrendStart ==
    /\ up_to = UpToDefault
    /\ calls = <<>>
    /\ tfn = "none"
    /\ correct = <<>>
    /\ data = <<>>
    /\ trend_counts = <<>>
    /\ lines = <<>>

\* odd is the study of the odd patient (0: none), who its PatientID, what
\* sets it apart.
Init ==
    /\ recist \in BOOLEAN
    /\ \E n \in 1..MaxStudies, copies \in 1..MaxCopies, order \in {"asc", "desc"},
          odd \in 0..MaxStudies, who \in 1..NumShapes,
          what \in {"short"} \cup (models \X FitFailures) :
        /\ odd <= n
        /\ odd = 0 => (who = 1 /\ what = "short")
        /\ studies = [i \in 1..n |->
                        CohortTable(i, copies,
                            IF what = "short" /\ i = odd THEN who ELSE 0, order)]
        /\ fitOutcome = [t \in (1..n) \X CohortIDs(copies) \X models |->
                            IF what # "short" /\ t[1] = odd /\ t[2] = who /\ t[3] = what[1]
                            THEN what[2] ELSE "ok"]
    /\ pc = "split"
    /\ PipelineStart
    /\ tStudies = <<>>
    /\ tRecist = TRUE
    /\ tpc = "off"
    /\ TrendStart

Next == SplitStudy \/ ProcessPair \/ WriteCsv

vars == <<pipelineVars, trendVars>>

Spec == Init /\ [][Next]_vars

\* ------------------------------------------------------------ trend plots
Key3(r) == <<r.StudyNr, r.Arm, r.PatientID>>

Key2(r) == <<r.Arm, r.PatientID>>

LexLess(a, b) ==
    \E i \in 1..Len(a) : a[i] < b[i] /\ \A j \in 1..(i - 1) : a[j] = b[j]

\* group keys, sorted as groupby sorts them
RECURSIVE SortKeys(_)
SortKeys(S) ==
    IF S = {} THEN <<>>
    ELSE LET m == CHOOSE x \in S : \A y \in S \ {x} : LexLess(x, y)
         IN  <<m>> \o SortKeys(S \ {m})

\* the keys of merged_studies.groupby(['StudyNr', 'Arm', 'PatientID'])
PatientKeys(table) == SortKeys({Key3(table[i]) : i \in DOMAIN table})

PatientGroup(table, key) == SelectSeq(table, LAMBDA r : Key3(r) = key)

\* the keys of .groupby(['StudyNr', 'Arm'])
ArmOf(key) == <<key[1], key[2]>>

ArmKeys(table) == {ArmOf(Key3(table[i])) : i \in DOMAIN table}

\* f: utils.detect_trend_recist if recist else utils.detect_trend
Classify(isRecist, ld) == IF isRecist THEN detect_trend_recist(ld) ELSE detect_trend(ld)

\* (range(2, up_to): the last amount left out)
AmountPointsShort(u) == [j \in 1..(u - 2) |-> j + 1]

\* amount_points = range(2, up_to + 1)
AmountPoints(u) == [j \in 1..(u - 1) |-> j + 1]

\* (a lookup by PatientID alone: the first patient of that number)
TrendLocByPatient(trends, keys, name) ==
    trends[CHOOSE k \in DOMAIN keys :
              /\ keys[k][3] = name[3]
              /\ \A j \in 1..(k - 1) : keys[j][3] # name[3]]

\* trends.loc[*p.name]: the trend filed under the group's own key
TrendLoc(trends, keys, name) == trends[CHOOSE k \in DOMAIN keys : keys[k] = name]

\* pd.concat(studies, ignore_index=True)
Merged(tables) == Flatten(tables)

\* the index of the first classifier call that raises, 0 when none does
FirstError(isRecist, planned) ==
    LET bad == {i \in DOMAIN planned : Classify(isRecist, planned[i].series) = "Error"}
    IN  IF bad = {} THEN 0 ELSE CHOOSE i \in bad : \A j \in bad : i <= j

CallLengths(planned, upTo) == [i \in 1..upTo |-> Len(planned[i].series)]

\* plot_correct_predictions(studies, up_to, recist), up_to being 2 .. the default
\* 5: the classifier is called on every patient's full series, then on its
\* first i points for every i; a call that raises ends the function
PlotCorrectPredictions ==
    /\ tpc = "idle"
    /\ \E u \in 2..UpToDefault :
        LET merged_studies == Merged(tStudies)
            keys    == PatientKeys(merged_studies)
            amount_points == AmountPoints(u)
            full    == [k \in DOMAIN keys |->
                         [key |-> keys[k],
                          series |-> Column_LD(PatientGroup(merged_studies, keys[k]))]]
            firsts(i) == [k \in DOMAIN keys |->
                         [key |-> keys[k],
                          series |-> Column_LD(HeadRows(PatientGroup(merged_studies, keys[k]), i))]]
            planned == full \o Flatten([j \in DOMAIN amount_points |-> firsts(amount_points[j])])
            stop    == FirstError(tRecist, planned)
            trends  == [k \in DOMAIN keys |-> Classify(tRecist, full[k].series)]
            CorrectTrend(i, k) ==
                 Classify(tRecist, firsts(i)[k].series) = TrendLoc(trends, keys, keys[k])
            members(g) == {k \in DOMAIN keys : ArmOf(keys[k]) = g}
        IN  /\ up_to' = u
            /\ IF stop # 0
               THEN /\ calls' = CallLengths(planned, stop)
                    /\ tpc' = "aborted"
                    /\ correct' = correct
                    /\ data' = data
               ELSE /\ calls' = CallLengths(planned, Len(planned))
                    /\ tpc' = "done"
                    /\ correct' = [j \in DOMAIN amount_points |->
                                    [k \in DOMAIN keys |-> CorrectTrend(amount_points[j], k)]]
                    /\ data' = [j \in DOMAIN amount_points |->
                                 [g \in ArmKeys(merged_studies) |->
                                    <<Cardinality({k \in members(g) :
                                            CorrectTrend(amount_points[j], k)}),
                                      Cardinality(members(g))>>]]
    /\ tfn' = "plot_correct_predictions"
    /\ UNCHANGED <<tStudies, tRecist, trend_counts, lines>>
    /\ UNCHANGED pipelineVars

Trend == {"Up", "Down", "Fluctuate"}

\* plot_proportion_trend(name, study) on one of the studies
PlotProportionTrend ==
    /\ tpc = "idle"
    /\ \E s \in DOMAIN tStudies :
        LET study   == tStudies[s]
            keys    == SortKeys({Key2(study[i]) : i \in DOMAIN study})
            planned == [k \in DOMAIN keys |->
                          [key |-> keys[k],
                           series |-> Column_LD(SelectSeq(study, LAMBDA r : Key2(r) = keys[k]))]]
            stop    == FirstError(FALSE, planned)
            arms    == {keys[k][1] : k \in DOMAIN keys}
        IN  IF stop # 0
            THEN /\ calls' = CallLengths(planned, stop)
                 /\ tpc' = "aborted"
                 /\ trend_counts' = trend_counts
            ELSE /\ calls' = CallLengths(planned, Len(planned))
                 /\ tpc' = "done"
                 /\ trend_counts' =
                        [at \in arms \X Trend |->
                            Cardinality({k \in DOMAIN keys :
                                /\ keys[k][1] = at[1]
                                /\ detect_trend(planned[k].series) = at[2]})]
    /\ tfn' = "plot_proportion_trend"
    /\ UNCHANGED <<tStudies, tRecist, up_to, correct, data, lines>>
    /\ UNCHANGED pipelineVars

\* study['PatientID'].unique(): in order of first appearance
RECURSIVE Unique(_)
Unique(s) ==
    IF s = <<>> THEN <<>>
    ELSE LET rest == Unique(SubSeq(s, 1, Len(s) - 1))
         IN  IF \E i \in DOMAIN rest : rest[i] = s[Len(s)] THEN rest
             ELSE Append(rest, s[Len(s)])

\* utils.convert_to_weeks
convert_to_weeks(days) == [i \in DOMAIN days |-> days[i] \div 7]

\* utils.filter_treatment_started(time, ld): the measurements taken once the
\* treatment has started
filter_treatment_started(time, ld) ==
    LET keep == SelectSeq([i \in DOMAIN time |-> i], LAMBDA i : time[i] >= 0)
    IN  [time |-> [i \in DOMAIN keep |-> time[keep[i]]],
         ld   |-> [i \in DOMAIN keep |-> ld[keep[i]]]]

\* the patients plot_change_trend draws for one study, and what it hands to
\* the classifier for each
ChangeTrendPlan(table) ==
    LET study    == get_at_least(table, MinPointsTrend)
        patients == Unique([i \in DOMAIN study |-> study[i].PatientID])
        shown    == SubSeq(patients, 1, Min(Amount, Len(patients)))
    IN  [k \in DOMAIN shown |->
            LET patient_data == Group(study, shown[k])
                started == filter_treatment_started(
                              convert_to_weeks([i \in DOMAIN patient_data |->
                                                  patient_data[i].TreatmentDay]),
                              Column_LD(patient_data))
            IN  [key |-> shown[k], series |-> started.ld, time |-> started.time]]

\* plot_change_trend(names, studies, amount=10)
PlotChangeTrend ==
    /\ tpc = "idle"
    /\ LET planned == Flatten([s \in DOMAIN tStudies |-> ChangeTrendPlan(tStudies[s])])
           stop    == FirstError(FALSE, planned)
       IN  IF stop # 0
           THEN /\ calls' = CallLengths(planned, stop)
                /\ tpc' = "aborted"
                /\ lines' = lines
           ELSE /\ calls' = CallLengths(planned, Len(planned))
                /\ tpc' = "done"
                /\ lines' = [k \in DOMAIN planned |->
                              [trend |-> detect_trend(planned[k].series),
                               ld_delta |-> [i \in DOMAIN planned[k].series |->
                                   planned[k].series[i] - planned[k].series[1]],
                               time_delta |-> [i \in DOMAIN planned[k].time |->
                                   planned[k].time[i] - planned[k].time[1]]]]
    /\ tfn' = "plot_change_trend"
    /\ UNCHANGED <<tStudies, tRecist, up_to, correct, data, trend_counts>>
    /\ UNCHANGED pipelineVars

\* The studies of a plot: two patients of study 1, arm 1, one with any series
\* of 1..MaxLen diameters, its first possibly measured before the treatment
\* started, one with any series of one or two; one patient in arm 2; one
\* patient of study 2.
Diameters == {0, 40, 61}

SeriesSet == UNION {[1..n -> Diameters] : n \in 1..MaxLen}

ShortSeriesSet == UNION {[1..n -> Diameters] : n \in 1..MinPointsTrend}

TrendInit ==
    /\ tRecist \in BOOLEAN
    /\ \E s1 \in SeriesSet, s2 \in ShortSeriesSet, firstDay \in {-14, 0} :
        tStudies =
            <<PatientRows(1, 1, 1, s1, firstDay) \o PatientRows(1, 2, 3, <<61, 40>>, 0)
                \o PatientRows(1, 1, 2, s2, 0),
              PatientRows(2, 1, 1, <<40, 40, 61>>, 0)>>
    /\ tpc = "idle"
    /\ TrendStart
    /\ recist = TRUE
    /\ studies = <<>>
    /\ fitOutcome = <<>>
    /\ pc = "off"
    /\ PipelineStart

TrendNext == PlotProportionTrend \/ PlotChangeTrend \/ PlotCorrectPredictions

TrendSpec == TrendInit /\ [][TrendNext]_vars

\* ============================================================== properties
\* --------------------------------------------- what the arguments describe
Range(f) == {f[i] : i \in DOMAIN f}

SubgroupNames(i) ==
    IF recist THEN RecistNames(study_names_list[i]) ELSE TrendNames(study_names_list[i])

StudyOfEntry(entry) == CHOOSE i \in DOMAIN studies : entry \in Range(SubgroupNames(i))

\* the subgroup's table as the trend split made it
OriginalTable(entry) ==
    LET i     == StudyOfEntry(entry)
        study == get_at_least(studies[i], MinPointsFit)
        parts == IF recist THEN split_on_trend_recist(study) ELSE split_on_trend(study)
        l     == CHOOSE x \in DOMAIN parts : SubgroupNames(i)[x] = entry
    IN  parts[l]

OriginalPatients(entry) ==
    {OriginalTable(entry)[i].PatientID : i \in DOMAIN OriginalTable(entry)}

FitFails(entry, pid, m) == fitOutcome[<<StudyOfEntry(entry), pid, m>>] # "ok"

ModelIndex(name) == CHOOSE m \in DOMAIN ModelNames : ModelNames[m] = name

\* C1: a patient whose fit fails for one model is left out of that model's
\* statistics only: every loop body, whichever model it is for, fits every
\* patient the trend split put in the subgroup.
C1_EveryModelFitsEveryPatient ==
    \A k \in DOMAIN fitLog : fitLog[k].fitted = OriginalPatients(fitLog[k].entry)

\* the loop body logged at k had no patient left to score
NoContributor(k) ==
    \A pid \in fitLog[k].fitted : FitFails(fitLog[k].entry, pid, fitLog[k].model)

\* a record whose mean is taken over no measurement at all
IsUndefined(r) == r.MAE[2] = 0

\* C2: when no patient contributes to a (subgroup, model) pair, the run does
\* not raise, and the table holds a record for the pair that is marked undefined.
C2_NoContributorGivesUndefinedRecord ==
    \A k \in DOMAIN fitLog :
        NoContributor(k) =>
            /\ pc # "aborted"
            /\ \E i \in DOMAIN df :
                /\ df[i].study_trend = fitLog[k].entry
                /\ df[i].model = ModelNames[fitLog[k].model]
                /\ IsUndefined(df[i])

\* a pair that can be scored: some patient of the subgroup fits the model
Computable(entry, m) == \E pid \in OriginalPatients(entry) : ~FitFails(entry, pid, m)

\* C3: a run is never ended by a failure met in the loop, and the table it
\* writes has a record for every pair that can be scored.
C3_RunCompletesWithComputableRecords ==
    /\ pc # "aborted"
    /\ pc = "done" =>
        \A i \in DOMAIN studies : \A l \in DOMAIN SubgroupNames(i) : \A m \in models :
            Computable(SubgroupNames(i)[l], m) =>
                \E r \in DOMAIN written :
                    /\ written[r].study_trend = SubgroupNames(i)[l]
                    /\ written[r].model = ModelNames[m]

ClaimLabels == IF recist THEN <<"CR", "PR", "PD", "SD">> ELSE <<"up", "down", "fluctuate">>

\* C4: a completed run over S studies and M models has written 4*S*M records
\* (RECIST) or 3*S*M records (free-form), one per (subgroup, model) pair, in
\* study order, then label order, then model order.
C4_OneRecordPerPairInOrder ==
    pc = "done" =>
        LET S == Len(studies)
            M == MaxModels
            L == Len(ClaimLabels)
        IN  /\ Len(written) = (IF recist THEN 4 ELSE 3) * S * M
            /\ \A idx \in DOMAIN written :
                /\ written[idx].study_trend =
                        study_names_list[((idx - 1) \div (L * M)) + 1] \o "_"
                            \o ClaimLabels[(((idx - 1) \div M) % L) + 1]
                /\ written[idx].model = ModelNames[((idx - 1) % M) + 1]

C4_Witness ==
    /\ pc = "done"
    /\ recist
    /\ Len(studies) = 2
    /\ Len(written) = 16
    /\ \E k \in DOMAIN fitLog : fitLog[k].fitted # OriginalPatients(fitLog[k].entry)

\* C6: in every record, AIC = 2 k - 2 ln(SSE), k the parameter count of the
\* record's model and SSE the square of the mean absolute error that the
\* record holds as its MAE.
C6_AicFromParamsAndRecordedMae ==
    \A i \in DOMAIN df :
        df[i].AIC = [twoK |-> 2 * ModelParams[ModelIndex(df[i].model)],
                     minus2LnOf |-> <<df[i].MAE[1] * df[i].MAE[1],
                                      df[i].MAE[2] * df[i].MAE[2]>>]

C6_Witness ==
    /\ Len(df) >= 2
    /\ df[2].model = "LogisticVerhulst"
    /\ df[2].AIC.twoK = 4
    /\ df[2].MAE[1] > 0
    /\ \E k \in DOMAIN fitLog : fitLog[k].fitted # OriginalPatients(fitLog[k].entry)

\* the place of row i among the rows of its patient, counted from 0
RowPos(table, i) == Cardinality({j \in 1..(i - 1) : table[j].PatientID = table[i].PatientID})

\* C7: when the error of a pair is computed, the predicted values and the
\* observed volumes are lists of one length, and place i of both is the same
\* measurement of the same patient.
C7_PredictedAlignedWithObserved ==
    fitLog # <<>> =>
        LET table == dictionary[fitLog[Len(fitLog)].entry]
        IN  /\ Len(predicted) = Len(table)
            /\ \A i \in DOMAIN predicted :
                i \in DOMAIN table =>
                    /\ predicted[i].PatientID = table[i].PatientID
                    /\ predicted[i].k = RowPos(table, i)

\* C8: the record of a (subgroup, model) pair is the one the model gives on
\* its own, on the subgroup as the trend split made it.
C8_RecordIndependentOfOtherModels ==
    \A i \in DOMAIN df :
        df[i] = PairResult(df[i].study_trend, OriginalTable(df[i].study_trend),
                           ModelIndex(df[i].model)).new_row

\* C9: every series handed to a trend classifier has at least 2 measurements.
C9_ClassifierGetsTwoMeasurements ==
    \A i \in DOMAIN calls : calls[i] >= 2

\* ------------------------------------------------ plot_correct_predictions
TPatients == {Key3(r) : r \in UNION {Range(tStudies[s]) : s \in DOMAIN tStudies}}

TSeries(key) ==
    LET study == tStudies[key[1]]
        own   == SelectSeq(study, LAMBDA r : r.Arm = key[2] /\ r.PatientID = key[3])
    IN  [i \in DOMAIN own |-> own[i].TargetLesionLongDiam_mm]

FirstPoints(series, n) == [i \in 1..(IF n < Len(series) THEN n ELSE Len(series)) |-> series[i]]

TGroups == {<<key[1], key[2]>> : key \in TPatients}

TMembers(g) == {key \in TPatients : key[1] = g[1] /\ key[2] = g[2]}

RECURSIVE SumOver(_, _)
SumOver(S, d) ==
    IF S = {} THEN 0
    ELSE LET x == CHOOSE y \in S : TRUE IN d[x][2] + SumOver(S \ {x}, d)

CorrectPredictionsDone == tfn = "plot_correct_predictions" /\ tpc = "done"

\* C5: plot_correct_predictions gives one entry per n in 2..up_to, in
\* increasing order; the entry for n gives every (study, arm) group the
\* fraction of its patients whose trend on the first n measurements is the
\* trend on all of them; the groups partition the patients; every fraction
\* lies between 0 and 1.
C5_AccuracyPerAmountAndGroup ==
    CorrectPredictionsDone =>
        /\ Len(data) = up_to - 1
        /\ \A n \in 2..up_to :
            LET d == data[n - 1]
            IN  /\ DOMAIN d = TGroups
                /\ SumOver(TGroups, d) = Cardinality(TPatients)
                /\ \A g \in TGroups :
                    /\ d[g][2] = Cardinality(TMembers(g))
                    /\ d[g][1] = Cardinality({key \in TMembers(g) :
                            Classify(tRecist, FirstPoints(TSeries(key), n))
                                = Classify(tRecist, TSeries(key))})
                    /\ 0 <= d[g][1]
                    /\ d[g][1] <= d[g][2]
                    /\ d[g][2] > 0

C5_Witness ==
    /\ CorrectPredictionsDone
    /\ up_to = 4
    /\ data[1][<<1, 1>>] = <<1, 2>>
    /\ data[2][<<1, 1>>] = <<2, 2>>
    /\ data[1][<<2, 1>>] = <<0, 1>>

KeyIndex(key) == CHOOSE k \in 1..Cardinality(TPatients) : PatientKeys(Merged(tStudies))[k] = key

\* C10: a patient with at most n measurements counts as correctly predicted
\* at n, and a group whose longest series has at most n measurements has
\* accuracy 1 at n.
C10_ShortSeriesCountAsCorrect ==
    CorrectPredictionsDone =>
        \A n \in 2..up_to :
            /\ \A key \in TPatients :
                Len(TSeries(key)) <= n => correct[n - 1][KeyIndex(key)]
            /\ \A g \in TGroups :
                (\A key \in TMembers(g) : Len(TSeries(key)) <= n) =>
                    data[n - 1][g][1] = data[n - 1][g][2]

C10_Witness ==
    /\ CorrectPredictionsDone
    /\ up_to >= 3
    /\ \E key \in TMembers(<<1, 1>>) : Len(TSeries(key)) = 3
    /\ data[1][<<1, 1>>][1] < data[1][<<1, 1>>][2]
    /\ data[2][<<1, 1>>][1] = data[2][<<1, 1>>][2]

====
